---- MODULE Spec2Model ----
(***************************************************************************)
(* StockTradebyZ: the screening pipeline of select_stock.py                *)
(* (run_select_stock and its helpers) and the workflow runner of main.py   *)
(* (StockTradeWorkflow), as one state machine.                             *)
(*                                                                         *)
(* Python values are written as follows.  A dict is a function whose       *)
(* domain is the set of its keys; a list is a sequence; None is the record *)
(* NoneV; a Timestamp of day d is [tag |-> "ts", day |-> d]; a DataFrame   *)
(* is [tag |-> "df", rows |-> <<dict, ...>>]; a cell of a DataFrame is     *)
(* [num |-> n], [str |-> s] or NaN.  The result of json.load keeps its     *)
(* Python type in the field "type" ("list" or "dict").                     *)
(***************************************************************************)
EXTENDS Integers, Sequences, FiniteSets, TLC

\* ------------------------------------------------------------------ bounds
\* longest list of selector specs in a configuration document
MaxSpecs == 2
\* dates of bars are 1..MaxDate; an explicit --date ranges over 0..MaxDate+1
MaxDate == 2
\* longest comma separated --tickers list
MaxTickers == 2

\* ----------------------------------------------------------- Python values
NoneV == [tag |-> "None"]
Timestamp(d) == [tag |-> "ts", day |-> d]
DataFrame(rows) == [tag |-> "df", rows |-> rows]
NaN == [nan |-> TRUE]
Num(n) == [num |-> n]
Str(s) == [str |-> s]
EmptyDict == [k \in {} |-> NoneV]

\* dict.get(key, default)
Get(d, key, default) == IF key \in DOMAIN d THEN d[key] ELSE default

\* d[key] = value, the other keys kept
Put(d, key, value) ==
    [k \in DOMAIN d \cup {key} |-> IF k = key THEN value ELSE d[k]]

\* a dict with the one key k when opt = {v}, the empty dict when opt = {}
Field(k, opt) == [x \in (IF opt = {} THEN {} ELSE {k}) |-> CHOOSE v \in opt : TRUE]
Opt(S) == {{}} \cup {{v} : v \in S}

RECURSIVE SeqsUpTo(_, _)
\* the sequences over S of length at most n
SeqsUpTo(S, n) ==
    IF n = 0 THEN {<<>>}
    ELSE LET shorter == SeqsUpTo(S, n - 1)
         IN  shorter \cup {Append(s, x) : s \in {t \in shorter : Len(t) = n - 1}, x \in S}

RECURSIVE SortedSeq(_)
\* the elements of a finite set of integers in ascending order
SortedSeq(S) ==
    IF S = {} THEN <<>>
    ELSE LET m == CHOOSE x \in S : \A y \in S : y <= x
         IN  Append(SortedSeq(S \ {m}), m)

Range(s) == {s[i] : i \in DOMAIN s}
NoDup(s) == \A i, j \in DOMAIN s : i # j => s[i] # s[j]

\* ------------------------------------------------------ select_stock.py
\* str.strip() and str.lower() on the ticker tokens the model enumerates
Strip(t) == CASE t = " A" -> "A" [] t = " " -> "" [] OTHER -> t
Lower(t) == CASE t = "ALL" -> "all" [] OTHER -> t

\* args.tickers is kept split at its commas: "A,B" is <<"A", "B">>, "" is <<"">>
TickersIsAll(tickers) == Len(tickers) = 1 /\ Lower(tickers[1]) = "all"

\* [c.strip() for c in args.tickers.split(",") if c.strip()]
ExplicitCodes(tickers) ==
    SelectSeq([i \in DOMAIN tickers |-> Strip(tickers[i])], LAMBDA c : c # "")

\* pd.read_csv(fp, parse_dates=["date"]).sort_values("date"): the file's bars by date
ReadSeries(bars) == SortedSeq(bars)

RECURSIVE load_data_break_from(_, _, _, _)
load_data_break_from(csv, codes, i, acc) ==
    IF i > Len(codes) THEN acc
    ELSE IF codes[i] \notin DOMAIN csv
         THEN [acc EXCEPT !.warnings = Append(@, codes[i])]
         ELSE load_data_break_from(csv, codes, i + 1,
                                   [acc EXCEPT !.frames = Put(@, codes[i], ReadSeries(csv[codes[i]]))])

load_data_break(csv, codes) ==
    load_data_break_from(csv, codes, 1, [frames |-> EmptyDict, warnings |-> <<>>])

RECURSIVE load_data_from(_, _, _, _)
load_data_from(csv, codes, i, acc) ==
    IF i > Len(codes) THEN acc
    ELSE IF codes[i] \notin DOMAIN csv
         THEN load_data_from(csv, codes, i + 1,
                             [acc EXCEPT !.warnings = Append(@, codes[i])])
         ELSE load_data_from(csv, codes, i + 1,
                             [acc EXCEPT !.frames = Put(@, codes[i], ReadSeries(csv[codes[i]]))])

\* load_data: the frames of the codes whose file exists, a warning for each other code
load_data(csv, codes) ==
    load_data_from(csv, codes, 1, [frames |-> EmptyDict, warnings |-> <<>>])

\* args.date is None or a text: the empty text, a well formed date of day d
\* ("iso"), or a text that is no date ("junk")
DateText(kind, d) == [tag |-> "str", kind |-> kind, day |-> d]

\* pd.to_datetime(args.date): the Timestamp, or ok = FALSE when it raises
to_datetime(text) ==
    IF text.kind = "iso" THEN [ok |-> TRUE, value |-> Timestamp(text.day)]
    ELSE [ok |-> FALSE, value |-> NoneV]

\* bool(args.date): None and "" are falsy
DateGiven(date) == date.tag = "str" /\ date.kind # "empty"

SetMax(S) == CHOOSE x \in S : \A y \in S : y <= x
SetMin(S) == CHOOSE x \in S : \A y \in S : x <= y

\* df["date"].max() of a loaded (sorted, non-empty) series
SeriesMax(series) == SetMax(Range(series))

latest_date_min(data) == Timestamp(SetMin({SeriesMax(data[c]) : c \in DOMAIN data}))

\* max(df["date"].max() for df in data.values())
latest_date(data) == Timestamp(SetMax({SeriesMax(data[c]) : c \in DOMAIN data}))

load_config_nowrap(cfg_file) ==
    IF cfg_file.tag = "absent" THEN [out |-> "exit", cfgs |-> <<>>, err |-> "config_missing"]
    ELSE IF cfg_file.tag = "malformed" THEN [out |-> "raise", cfgs |-> <<>>, err |-> "JSONDecodeError"]
    ELSE LET cfg_raw == cfg_file.json
             cfgs == IF cfg_raw.type = "list" THEN cfg_raw.val
                     ELSE <<cfg_raw.val>>
         IN  IF cfgs = <<>> THEN [out |-> "exit", cfgs |-> <<>>, err |-> "config_empty"]
             ELSE [out |-> "return", cfgs |-> cfgs, err |-> ""]

\* load_config: the list form of the three document shapes; sys.exit(1) when the
\* file is absent or the list is empty; json.load raises on a malformed document
load_config(cfg_file) ==
    IF cfg_file.tag = "absent" THEN [out |-> "exit", cfgs |-> <<>>, err |-> "config_missing"]
    ELSE IF cfg_file.tag = "malformed" THEN [out |-> "raise", cfgs |-> <<>>, err |-> "JSONDecodeError"]
    ELSE LET cfg_raw == cfg_file.json
             cfgs == IF cfg_raw.type = "list" THEN cfg_raw.val
                     ELSE IF cfg_raw.type = "dict" /\ "selectors" \in DOMAIN cfg_raw.val
                          THEN cfg_raw.val["selectors"]
                          ELSE <<cfg_raw.val>>
         IN  IF cfgs = <<>> THEN [out |-> "exit", cfgs |-> <<>>, err |-> "config_empty"]
             ELSE [out |-> "return", cfgs |-> cfgs, err |-> ""]

\* The Selector module: which classes it has, the keyword arguments each
\* constructor accepts, and what select(trade_date, data) of an instance does.
ClassKnown(module, cls_name) == module.found /\ cls_name \in DOMAIN module.classes
CtorAccepts(module, cls_name, params) == DOMAIN params \subseteq module.classes[cls_name].kwargs
SelectOutcome(module, cls_name) == module.classes[cls_name].select

\* instantiate_selector: (alias, instance), or the exception it raises.
\* cfg.get("class") is None without the key; None and "" both fail `not cls_name`
instantiate_selector(module, cfg) ==
    LET cls_name == Get(cfg, "class", "")
        params == Get(cfg, "params", EmptyDict)
    IN  IF cls_name = "" THEN [ok |-> FALSE, err |-> "ValueError"]
        ELSE IF ~ClassKnown(module, cls_name) THEN [ok |-> FALSE, err |-> "ImportError"]
        ELSE IF ~CtorAccepts(module, cls_name, params) THEN [ok |-> FALSE, err |-> "TypeError"]
        ELSE [ok |-> TRUE, alias |-> Get(cfg, "alias", cls_name), cls |-> cls_name]

IsInactive_never(cfg) == FALSE

\* cfg.get("activate", True) is False
IsInactive(cfg) == Get(cfg, "activate", TRUE) = FALSE

StoreResult_keep_first(results, alias, picks) ==
    IF alias \in DOMAIN results THEN results ELSE Put(results, alias, picks)

\* results[alias] = picks
StoreResult(results, alias, picks) == Put(results, alias, picks)


\* etf_info_df[etf_info_df['code'] == code]: the rows of the code, in table order
RowsOf(df, code) == SelectSeq(df.rows, LAMBDA row : row["code"] = Str(code))

\* info_parts of one matched code with a reference row (lines 157-173); the
\* columns are 名称 (name), mktcap, 最新价 (price) and 涨跌幅 (change_pct), and
\* row.get gives its default when the table has no such column
info_parts(code, row) ==
    LET name == Get(row, "name", Str("unknown"))
        mktcap == Get(row, "mktcap", Num(0))
        price == Get(row, "price", Num(0))
        change_pct == Get(row, "change_pct", Num(0))
    IN  <<[part |-> "head", code |-> code, name |-> name]>>
        \o (IF mktcap # NaN /\ mktcap.num > 0 THEN <<[part |-> "mktcap", value |-> mktcap.num]>> ELSE <<>>)
        \o (IF price # NaN /\ price.num > 0 THEN <<[part |-> "price", value |-> price.num]>> ELSE <<>>)
        \o (IF change_pct # NaN THEN <<[part |-> "change_pct", value |-> change_pct.num]>> ELSE <<>>)

RECURSIVE detail_lines(_, _, _, _, _)
\* the loop of lines 154-177, then line 178: one enriched line per code with a
\* reference row, the other codes collected in detailed_picks and logged last
detail_lines(alias, picks, df, i, detailed_picks) ==
    IF i > Len(picks)
    THEN <<[level |-> "info", msg |-> "detail_missing", alias |-> alias, codes |-> detailed_picks]>>
    ELSE LET etf_info == RowsOf(df, picks[i])
         IN  IF etf_info # <<>>
             THEN <<[level |-> "info", msg |-> "enriched", alias |-> alias,
                     info_parts |-> info_parts(picks[i], etf_info[1])]>>
                  \o detail_lines(alias, picks, df, i + 1, detailed_picks)
             ELSE detail_lines(alias, picks, df, i + 1, Append(detailed_picks, picks[i]))

\* what lines 146-180 log for one selector's result
report(alias, picks, etf_info_df, trade_date) ==
    <<[level |-> "info", msg |-> "result", alias |-> alias, trade_date |-> trade_date,
       count |-> Len(picks)]>>
    \o (IF picks # <<>> /\ etf_info_df # NoneV
        THEN detail_lines(alias, picks, etf_info_df, 1, <<>>)
        ELSE <<[level |-> "info", msg |-> "pick_list", alias |-> alias, codes |-> picks]>>)

AfterSkip_break(i, n) == n + 1

\* `continue` of line 140: the loop goes on with the next spec
AfterSkip(i, n) == i + 1

\* ------------------------------------------------------------- main.py
\* ConfigManager._get_default_config: the sections the workflow and the select
\* stage read (data_dir and config name the directory and the document of fs)
get_default_config ==
    [workflow |-> [auto_fetch |-> TRUE, auto_select |-> TRUE, save_etf_info |-> TRUE],
     select |-> [date |-> NoneV, tickers |-> <<"all">>]]

\* ConfigManager._load_config: the document of project_config.json, or the
\* default configuration with a warning when the file is absent and with an
\* error when it cannot be loaded
ConfigManager_load_config(file) ==
    CASE file.tag = "absent" ->
            [config |-> get_default_config,
             records |-> <<[level |-> "warning", msg |-> "project_config_missing",
                            what |-> "project_config.json"]>>]
      [] file.tag = "malformed" ->
            [config |-> get_default_config,
             records |-> <<[level |-> "error", msg |-> "project_config_load_failed"]>>]
      [] file.tag = "json" -> [config |-> file.json, records |-> <<>>]

\* ConfigManager.get_select_args: the Namespace of the select stage
get_select_args(config) ==
    LET select_config == Get(config, "select", EmptyDict)
    IN  [tickers |-> Get(select_config, "tickers", <<"all">>),
         date |-> Get(select_config, "date", NoneV),
         etf_info |-> NoneV]

RunMode_both(fetch_only, select_only, workflow_config) ==
    IF fetch_only THEN [should_fetch |-> TRUE, should_select |-> FALSE]
    ELSE [should_fetch |-> Get(workflow_config, "auto_fetch", TRUE),
          should_select |-> Get(workflow_config, "auto_select", TRUE)]

\* StockTradeWorkflow.run, lines 181-189: which stages run
RunMode(fetch_only, select_only, workflow_config) ==
    IF fetch_only THEN [should_fetch |-> TRUE, should_select |-> FALSE]
    ELSE IF select_only THEN [should_fetch |-> FALSE, should_select |-> TRUE]
    ELSE [should_fetch |-> Get(workflow_config, "auto_fetch", TRUE),
          should_select |-> Get(workflow_config, "auto_select", TRUE)]

\* ---------------------------------------------------------------- state
VARIABLES
    entry,              \* the program run: "cli" (select_stock.py), "workflow" (main.py)
                        \* or "run" (a caller of StockTradeWorkflow.run)
    argv,               \* fetch_only and select_only: main.py's flags, run's arguments
    project_config_file,    \* project_config.json: absent, malformed or a document
    project_config,     \* ConfigManager.config, the empty dict before it is loaded
    fetch_env,          \* what run_fetch_kline and DataFrame.to_csv do in this run
    fs,                 \* the file system: data directory, history files, config, tables
    module,             \* the Selector module
    args,               \* the Namespace given to run_select_stock
    pc,                 \* the statement the program is at
    codes, data, trade_date, selector_cfgs, etf_info_df, results,   \* run_select_stock's locals
    idx,                \* position of the loop of line 133 in selector_cfgs
    log,                \* the records logged so far
    attempted,          \* the positions given to instantiate_selector, in order
    invoked,            \* the select calls made, in order
    outcome,            \* how run_select_stock ended: "none", "results", "raise", "exit"
    fatal,              \* the fatal condition of the run, "" when there is none
    should_fetch, should_select,
    self_etf_info_df, self_etf_info_path,   \* StockTradeWorkflow's fields
    trace,              \* the stages of the workflow started and ended, in order
    run_ret,            \* how StockTradeWorkflow.run ended: "True", "False", "raise", "exit"
    exit_code           \* the process's exit status, "" while it runs

inputs == <<entry, argv, project_config_file, fetch_env, module>>
locals == <<codes, data, trade_date, selector_cfgs, etf_info_df, results, idx>>
history == <<attempted, invoked>>
workflow == <<should_fetch, should_select, self_etf_info_df, self_etf_info_path, trace, run_ret>>
vars == <<inputs, project_config, fs, args, pc, locals, log, history, outcome, fatal, workflow, exit_code>>

Error(msg) == [level |-> "error", msg |-> msg]
Warning(msg, what) == [level |-> "warning", msg |-> msg, what |-> what]

\* run_select_stock ends: `how` is its outcome, `cond` the fatal condition met
End(how, cond, records) ==
    /\ outcome' = how
    /\ fatal' = cond
    /\ log' = log \o records
    /\ pc' = "rss_end"

\* ------------------------------------------------- run_select_stock
\* lines 94-97
RssDataDir ==
    /\ pc = "rss_dir"
    /\ IF ~fs.data_dir
       THEN End("none", "no_data_dir", <<Error("no_data_dir")>>)
       ELSE pc' = "rss_codes" /\ UNCHANGED <<outcome, fatal, log>>
    /\ UNCHANGED <<inputs, project_config, fs, args, locals, history, workflow, exit_code>>

\* lines 99-106; data_dir.glob gives the files in an order the file system chooses
RssCodes ==
    /\ pc = "rss_codes"
    /\ \E order \in {s \in SeqsUpTo(DOMAIN fs.csv, Cardinality(DOMAIN fs.csv)) :
                        NoDup(s) /\ Range(s) = DOMAIN fs.csv} :
          LET cs == IF TickersIsAll(args.tickers) THEN order ELSE ExplicitCodes(args.tickers)
          IN  /\ codes' = cs
              /\ IF cs = <<>>
                 THEN End("none", "empty_universe", <<Error("empty_universe")>>)
                 ELSE pc' = "rss_load" /\ UNCHANGED <<outcome, fatal, log>>
    /\ UNCHANGED <<inputs, project_config, fs, args, data, trade_date, selector_cfgs, etf_info_df, results, idx,
                   history, workflow, exit_code>>

\* lines 108-111
RssLoadData ==
    /\ pc = "rss_load"
    /\ LET loaded == load_data(fs.csv, codes)
           warned == [i \in DOMAIN loaded.warnings |-> Warning("no_file", loaded.warnings[i])]
       IN  /\ data' = loaded.frames
           /\ IF DOMAIN loaded.frames = {}
              THEN End("none", "no_data", warned \o <<Error("no_data")>>)
              ELSE pc' = "rss_date" /\ log' = log \o warned /\ UNCHANGED <<outcome, fatal>>
    /\ UNCHANGED <<inputs, project_config, fs, args, codes, trade_date, selector_cfgs, etf_info_df, results, idx,
                   history, workflow, exit_code>>

\* lines 113-119
RssTradeDate ==
    /\ pc = "rss_date"
    /\ IF DateGiven(args.date)
       THEN LET parsed == to_datetime(args.date)
            IN  IF parsed.ok
                THEN /\ trade_date' = parsed.value
                     /\ pc' = "rss_config"
                     /\ UNCHANGED <<outcome, fatal, log>>
                ELSE /\ End("raise", "invalid_date", <<>>)
                     /\ UNCHANGED trade_date
       ELSE /\ trade_date' = latest_date(data)
            /\ log' = Append(log, [level |-> "info", msg |-> "latest_date",
                                   trade_date |-> latest_date(data)])
            /\ pc' = "rss_config"
            /\ UNCHANGED <<outcome, fatal>>
    /\ UNCHANGED <<inputs, project_config, fs, args, codes, data, selector_cfgs, etf_info_df, results, idx,
                   history, workflow, exit_code>>

\* line 122
RssLoadConfig ==
    /\ pc = "rss_config"
    /\ LET loaded == load_config(fs.config)
       IN  CASE loaded.out = "return" ->
                   /\ selector_cfgs' = loaded.cfgs
                   /\ pc' = "rss_etf"
                   /\ UNCHANGED <<outcome, fatal, log>>
             [] loaded.out = "exit" ->
                   /\ End("exit", loaded.err, <<Error(loaded.err)>>)
                   /\ UNCHANGED selector_cfgs
             [] loaded.out = "raise" ->
                   /\ End("raise", "", <<>>)
                   /\ UNCHANGED selector_cfgs
    /\ UNCHANGED <<inputs, project_config, fs, args, codes, data, trade_date, etf_info_df, results, idx,
                   history, workflow, exit_code>>

\* pd.read_csv(args.etf_info): the table, or ok = FALSE when it raises
read_csv(path) ==
    IF path \in DOMAIN fs.tables /\ fs.tables[path].tag = "df"
    THEN [ok |-> TRUE, value |-> fs.tables[path]]
    ELSE [ok |-> FALSE, value |-> NoneV]

\* lines 125-132
RssLoadEtf ==
    /\ pc = "rss_etf"
    /\ IF etf_info_df = NoneV /\ args.etf_info # NoneV
       THEN LET read == read_csv(args.etf_info.path)
            IN  IF read.ok
                THEN etf_info_df' = read.value /\ UNCHANGED log
                ELSE /\ log' = Append(log, Warning("etf_info_unreadable", args.etf_info.path))
                     /\ UNCHANGED etf_info_df
       ELSE UNCHANGED <<etf_info_df, log>>
    /\ results' = EmptyDict
    /\ idx' = 1
    /\ pc' = "rss_loop"
    /\ UNCHANGED <<inputs, project_config, fs, args, codes, data, trade_date, selector_cfgs,
                   history, outcome, fatal, workflow, exit_code>>

\* lines 133-135: a spec switched off
LoopInactive ==
    /\ pc = "rss_loop"
    /\ idx <= Len(selector_cfgs)
    /\ IsInactive(selector_cfgs[idx])
    /\ idx' = idx + 1
    /\ UNCHANGED <<inputs, project_config, fs, args, pc, codes, data, trade_date, selector_cfgs, etf_info_df,
                   results, log, history, outcome, fatal, workflow, exit_code>>

\* lines 136-140: instantiate_selector raises
LoopSkip ==
    /\ pc = "rss_loop"
    /\ idx <= Len(selector_cfgs)
    /\ ~IsInactive(selector_cfgs[idx])
    /\ LET made == instantiate_selector(module, selector_cfgs[idx])
       IN  /\ ~made.ok
           /\ log' = Append(log, [level |-> "error", msg |-> "skip_config", position |-> idx,
                                  cfg |-> selector_cfgs[idx], err |-> made.err])
    /\ attempted' = Append(attempted, idx)
    /\ idx' = AfterSkip(idx, Len(selector_cfgs))
    /\ UNCHANGED <<inputs, project_config, fs, args, pc, codes, data, trade_date, selector_cfgs, etf_info_df,
                   results, invoked, outcome, fatal, workflow, exit_code>>

\* lines 136-180: the selector is built, select runs, its result is stored and reported
LoopSelect ==
    /\ pc = "rss_loop"
    /\ idx <= Len(selector_cfgs)
    /\ ~IsInactive(selector_cfgs[idx])
    /\ LET made == instantiate_selector(module, selector_cfgs[idx])
       IN  /\ made.ok
           /\ invoked' = Append(invoked, [position |-> idx, alias |-> made.alias,
                                          cls |-> made.cls, trade_date |-> trade_date])
           /\ LET picked == SelectOutcome(module, made.cls)
              IN  IF picked.raises
                  THEN /\ End("raise", "", <<>>)
                       /\ UNCHANGED <<results, idx>>
                  ELSE /\ results' = StoreResult(results, made.alias, picked.picks)
                       /\ log' = log \o report(made.alias, picked.picks, etf_info_df, trade_date)
                       /\ idx' = idx + 1
                       /\ UNCHANGED <<pc, outcome, fatal>>
    /\ attempted' = Append(attempted, idx)
    /\ UNCHANGED <<inputs, project_config, fs, args, codes, data, trade_date, selector_cfgs, etf_info_df,
                   workflow, exit_code>>

\* line 182
RssReturn ==
    /\ pc = "rss_loop"
    /\ idx > Len(selector_cfgs)
    /\ outcome' = "results"
    /\ pc' = "rss_end"
    /\ UNCHANGED <<inputs, project_config, fs, args, locals, log, history, fatal, workflow, exit_code>>

\* select_stock.py run as a program: main() calls run_select_stock(args)
CliMain ==
    /\ pc = "start"
    /\ entry = "cli"
    /\ pc' = "rss_dir"
    /\ UNCHANGED <<inputs, project_config, fs, args, locals, log, history, outcome, fatal, workflow, exit_code>>

\* the process ends: a return ends it with status 0, sys.exit(1) and an
\* uncaught exception with status 1
CliExit ==
    /\ pc = "rss_end"
    /\ entry = "cli"
    /\ exit_code' = IF outcome \in {"none", "results"} THEN "0" ELSE "1"
    /\ pc' = "halt"
    /\ UNCHANGED <<inputs, project_config, fs, args, locals, log, history, outcome, fatal, workflow>>

\* ---------------------------------------------- StockTradeWorkflow
EtfInfoPath == [path |-> "etf_info.csv"]

Finish(ret, event) ==
    /\ run_ret' = ret
    /\ trace' = Append(trace, event)
    /\ pc' = "main_end"

\* ConfigManager(config_path) and StockTradeWorkflow(config_manager), lines 35-37
\* and 115-118: the project configuration is loaded, then run is called
Construct ==
    LET loaded == ConfigManager_load_config(project_config_file)
    IN  /\ project_config' = loaded.config
        /\ log' = log \o loaded.records
        /\ pc' = "run"

\* main(), lines 237-249: the two modes exclude each other; otherwise the
\* workflow is built and run with the two flags
MainStart ==
    /\ pc = "start"
    /\ entry = "workflow"
    /\ IF argv.fetch_only /\ argv.select_only
       THEN /\ log' = Append(log, Error("fetch_only_and_select_only"))
            /\ exit_code' = "1"
            /\ pc' = "halt"
            /\ UNCHANGED project_config
       ELSE /\ Construct
            /\ UNCHANGED exit_code
    /\ UNCHANGED <<inputs, fs, args, locals, history, outcome, fatal, workflow>>

\* StockTradeWorkflow.run(fetch_only, select_only) called on a workflow built on
\* ConfigManager, without main()'s test of the flags: run takes any two booleans
CallRun ==
    /\ pc = "start"
    /\ entry = "run"
    /\ Construct
    /\ UNCHANGED <<inputs, fs, args, locals, history, outcome, fatal, workflow, exit_code>>

\* run, lines 175-189; config["workflow"] raises KeyError without the key
Run ==
    /\ pc = "run"
    /\ IF "workflow" \notin DOMAIN project_config
       THEN /\ run_ret' = "raise"
            /\ pc' = "main_end"
            /\ UNCHANGED <<should_fetch, should_select>>
       ELSE LET mode == RunMode(argv.fetch_only, argv.select_only, project_config["workflow"])
            IN  /\ should_fetch' = mode.should_fetch
                /\ should_select' = mode.should_select
                /\ pc' = "fetch"
                /\ UNCHANGED run_ret
    /\ UNCHANGED <<inputs, project_config, fs, args, locals, log, history, outcome, fatal,
                   self_etf_info_df, self_etf_info_path, trace, exit_code>>

\* run, lines 192-194, with run_fetch, lines 120-145
RunFetch ==
    /\ pc = "fetch"
    /\ should_fetch
    /\ LET save == Get(project_config["workflow"], "save_etf_info", TRUE)
           started == Append(trace, "fetch_start")
           failed == /\ run_ret' = "False"
                     /\ trace' = Append(started, "fetch_failed")
                     /\ log' = Append(log, Error("fetch_failed"))
                     /\ pc' = "main_end"
       IN  CASE fetch_env.ret = "raise" ->
                   /\ failed
                   /\ UNCHANGED <<self_etf_info_df, self_etf_info_path, fs>>
             [] fetch_env.ret = "none" ->
                   /\ failed
                   /\ self_etf_info_df' = NoneV
                   /\ UNCHANGED <<self_etf_info_path, fs>>
             [] fetch_env.ret = "ok" /\ save /\ ~fetch_env.to_csv_ok ->
                   /\ failed
                   /\ self_etf_info_df' = fetch_env.df
                   /\ self_etf_info_path' = EtfInfoPath
                   /\ UNCHANGED fs
             [] fetch_env.ret = "ok" /\ (~save \/ fetch_env.to_csv_ok) ->
                   /\ self_etf_info_df' = fetch_env.df
                   /\ self_etf_info_path' = IF save THEN EtfInfoPath ELSE self_etf_info_path
                   /\ fs' = IF save
                            THEN [fs EXCEPT !.tables = Put(@, EtfInfoPath.path, fetch_env.df)]
                            ELSE fs
                   /\ trace' = Append(started, "fetch_ok")
                   /\ pc' = "select"
                   /\ UNCHANGED <<run_ret, log>>
    /\ UNCHANGED <<inputs, project_config, args, locals, history, outcome, fatal, should_fetch, should_select,
                   exit_code>>

\* run, line 192: the fetch stage is off
SkipFetch ==
    /\ pc = "fetch"
    /\ ~should_fetch
    /\ pc' = "select"
    /\ UNCHANGED <<inputs, project_config, fs, args, locals, log, history, outcome, fatal, workflow, exit_code>>

\* run, line 197, with run_select up to its call of run_select_stock, lines 147-160
RunSelect ==
    /\ pc = "select"
    /\ should_select
    /\ trace' = Append(trace, "select_start")
    /\ LET select_args == get_select_args(project_config)
       IN  args' = IF self_etf_info_path # NoneV /\ self_etf_info_path.path \in DOMAIN fs.tables
                   THEN [select_args EXCEPT !.etf_info = self_etf_info_path]
                   ELSE select_args
    /\ etf_info_df' = self_etf_info_df
    /\ pc' = "rss_dir"
    /\ UNCHANGED <<inputs, project_config, fs, codes, data, trade_date, selector_cfgs, results, idx, log, history,
                   outcome, fatal, should_fetch, should_select, self_etf_info_df,
                   self_etf_info_path, run_ret, exit_code>>

\* run, lines 197-204: the select stage is off
SkipSelect ==
    /\ pc = "select"
    /\ ~should_select
    /\ run_ret' = "True"
    /\ pc' = "main_end"
    /\ UNCHANGED <<inputs, project_config, fs, args, locals, log, history, outcome, fatal, should_fetch,
                   should_select, self_etf_info_df, self_etf_info_path, trace, exit_code>>

\* run_select, lines 160-171, and run, lines 198-204: run_select_stock has ended.
\* `except Exception` does not catch the SystemExit of sys.exit(1)
RunSelectReturn ==
    /\ pc = "rss_end"
    /\ entry \in {"workflow", "run"}
    /\ CASE outcome = "results" -> Finish("True", "select_ok") /\ UNCHANGED log
         [] outcome = "none" ->
               Finish("False", "select_failed") /\ log' = Append(log, Error("select_failed"))
         [] outcome = "raise" ->
               Finish("False", "select_failed") /\ log' = Append(log, Error("select_error"))
         [] outcome = "exit" -> Finish("exit", "select_exit") /\ UNCHANGED log
    /\ UNCHANGED <<inputs, project_config, fs, args, locals, history, outcome, fatal, should_fetch, should_select,
                   self_etf_info_df, self_etf_info_path, exit_code>>

\* main(), lines 252-266
MainEnd ==
    /\ pc = "main_end"
    /\ entry = "workflow"
    /\ exit_code' = IF run_ret = "True" THEN "0" ELSE "1"
    /\ log' = IF run_ret \in {"False", "raise"} THEN Append(log, Error("workflow_failed")) ELSE log
    /\ pc' = "halt"
    /\ UNCHANGED <<inputs, project_config, fs, args, locals, history, outcome, fatal, workflow>>

\* run has returned to the caller, or an exception has left it, lines 194-204
RunReturn ==
    /\ pc = "main_end"
    /\ entry = "run"
    /\ pc' = "halt"
    /\ UNCHANGED <<inputs, project_config, fs, args, locals, log, history, outcome, fatal, workflow,
                   exit_code>>

\* ------------------------------------------------------------ the runs
Codes == {"A", "B"}
DateSets == SUBSET (1 .. MaxDate) \ {{}}
\* the data directories: each code without a history file or with one of bars
CsvDirs == UNION {[D -> DateSets] : D \in SUBSET Codes}
DefaultCsv == [c \in Codes |-> IF c = "A" THEN 1 .. MaxDate ELSE {1}]

SpecOf(cls, alias, activate, params) ==
    Field("class", cls) @@ Field("alias", alias) @@ Field("activate", activate)
    @@ Field("params", params)

Window == [window |-> 20]
Bogus == [bogus |-> 1]

K1Spec == SpecOf({"K1"}, {}, {}, {})

\* the selector specs of the configuration documents
LeafSpecs ==
    {SpecOf(c, a, act, {}) : c \in Opt({"K1", "K2", "Boom", "Nope"}), a \in Opt({"K1"}),
                              act \in Opt({FALSE})}
    \cup {SpecOf({"K1"}, {}, {}, {p}) : p \in {Window, Bogus}}
    \cup {SpecOf({"K2"}, {}, {TRUE}, {}), SpecOf({""}, {}, {}, {})}

WrapSpecs == {K1Spec, SpecOf({"Nope"}, {}, {}, {}), SpecOf({"K2"}, {"K1"}, {}, {})}
WrapHeads == {EmptyDict, K1Spec, SpecOf({"K2"}, {"K1"}, {FALSE}, {})}

ListDoc(S) == [tag |-> "json", json |-> [type |-> "list", val |-> S]]
DictDoc(d) == [tag |-> "json", json |-> [type |-> "dict", val |-> d]]
Absent == [tag |-> "absent"]
Malformed == [tag |-> "malformed"]

ConfigFiles ==
    {Absent, Malformed}
    \cup {ListDoc(S) : S \in SeqsUpTo(LeafSpecs, MaxSpecs)}
    \cup {DictDoc(s) : s \in LeafSpecs}
    \cup {DictDoc(Put(s, "selectors", S)) : s \in WrapHeads, S \in SeqsUpTo(WrapSpecs, MaxSpecs)}

Returns(picks) == [raises |-> FALSE, picks |-> picks]
Raises == [raises |-> TRUE, picks |-> <<>>]

\* a Selector module with the classes K1, K2 and Boom; select of Boom raises
ModuleWith(k1) ==
    [found |-> TRUE,
     classes |-> [c \in {"K1", "K2", "Boom"} |->
                    [kwargs |-> {"window"},
                     select |-> CASE c = "K1" -> k1
                                  [] c = "K2" -> Returns(<<"B", "A">>)
                                  [] c = "Boom" -> Raises]]]
DefaultModule == ModuleWith(Returns(<<"A">>))
NoModule == [found |-> FALSE, classes |-> EmptyDict]

RowOf(code, name, mktcap, price, change_pct) ==
    [code |-> Str(code)] @@ Field("name", name) @@ Field("mktcap", mktcap)
    @@ Field("price", price) @@ Field("change_pct", change_pct)

FetchedTable == DataFrame(<<RowOf("A", {Str("EtfA")}, {Num(5)}, {Num(3)}, {Num(-1)})>>)

\* the reference tables of --etf-info: no row, or one row for the code A
EtfTables ==
    {DataFrame(<<>>)}
    \cup {DataFrame(<<RowOf("A", n, m, p, c)>>) :
            n \in Opt({Str("EtfA")}), m \in Opt({NaN, Num(0), Num(5)}),
            p \in Opt({NaN, Num(3)}), c \in Opt({NaN, Num(0), Num(-1), Num(2)})}

PickLists == {s \in SeqsUpTo(Codes, Cardinality(Codes)) : NoDup(s)}

\* args.tickers split at its commas: "all", "ALL", or up to MaxTickers tokens
TickerTexts ==
    {<<"all">>, <<"ALL">>} \cup (SeqsUpTo({"", " A", "B"}, MaxTickers) \ {<<>>})

DateArgs ==
    {NoneV, DateText("empty", 0), DateText("junk", 0)}
    \cup {DateText("iso", d) : d \in 0 .. MaxDate + 1}

Base ==
    [entry |-> "cli",
     argv |-> [fetch_only |-> FALSE, select_only |-> FALSE],
     project_config_file |-> [tag |-> "absent"],
     fetch_env |-> [ret |-> "ok", to_csv_ok |-> TRUE, df |-> FetchedTable],
     fs |-> [data_dir |-> TRUE, csv |-> DefaultCsv, config |-> ListDoc(<<K1Spec>>),
             tables |-> EmptyDict],
     module |-> DefaultModule,
     args |-> [tickers |-> <<"A", "B">>, date |-> NoneV, etf_info |-> NoneV]]

NoDataDir == [Base EXCEPT !.fs.data_dir = FALSE, !.fs.csv = EmptyDict]

\* the runs that differ in the configuration document
ConfigRuns ==
    {[Base EXCEPT !.fs.config = f] : f \in ConfigFiles}
    \cup {[Base EXCEPT !.fs.config = ListDoc(S), !.module = NoModule] : S \in SeqsUpTo(WrapSpecs, 1)}

\* the runs that differ in the universe and in the history files
LoadRuns ==
    {[Base EXCEPT !.args.tickers = t, !.fs.csv = csv] : t \in TickerTexts, csv \in CsvDirs}
    \cup {NoDataDir}

\* the runs that differ in --date and in the history files
DateRuns ==
    {[Base EXCEPT !.args.tickers = <<"all">>, !.args.date = d, !.fs.csv = csv] :
        d \in DateArgs, csv \in CsvDirs \ {EmptyDict}}

\* the runs that differ in the matched codes and in the reference table
ReportRuns ==
    {[Base EXCEPT !.module = ModuleWith(Returns(picks)),
                  !.args.etf_info = [path |-> "etf.csv"],
                  !.fs.tables = [f \in {"etf.csv"} |-> t]] :
        picks \in PickLists, t \in EtfTables \cup {[tag |-> "unreadable"]}}
    \cup {[Base EXCEPT !.module = ModuleWith(Returns(picks)),
                       !.fs.config = ListDoc(<<K1Spec, SpecOf({"K2"}, {}, {}, {})>>)] :
            picks \in PickLists}

\* the documents of project_config.json: with or without the workflow section
\* and its settings, with or without a select section
WorkflowConfigs ==
    {Field("select", sel) : sel \in Opt({[date |-> DateText("junk", 0)]})}
    \cup {[workflow |-> Field("auto_fetch", f) @@ Field("auto_select", s)
                        @@ Field("save_etf_info", e)] @@ Field("select", sel) :
            f \in Opt(BOOLEAN), s \in Opt(BOOLEAN), e \in Opt({FALSE}),
            sel \in Opt({[date |-> DateText("junk", 0)], [tickers |-> <<" A", "B">>]})}

ProjectConfigFiles ==
    {[tag |-> "absent"], [tag |-> "malformed"]}
    \cup {[tag |-> "json", json |-> c] : c \in WorkflowConfigs}

FetchEnvs ==
    {[ret |-> r, to_csv_ok |-> TRUE, df |-> FetchedTable] : r \in {"ok", "none", "raise"}}
    \cup {[ret |-> "ok", to_csv_ok |-> FALSE, df |-> FetchedTable]}

\* the runs of main.py
WorkflowRuns ==
    {[b EXCEPT !.entry = "workflow", !.argv = [fetch_only |-> fo, select_only |-> so],
               !.project_config_file = f, !.fetch_env = e,
               !.args = get_select_args(EmptyDict)] :
        b \in {Base, NoDataDir,
               [Base EXCEPT !.fs.config = Absent],
               [Base EXCEPT !.fs.config = ListDoc(<<SpecOf({"Boom"}, {}, {}, {})>>)]},
        fo \in BOOLEAN, so \in BOOLEAN, f \in ProjectConfigFiles, e \in FetchEnvs}

\* the calls of StockTradeWorkflow.run: every pair of its two booleans
DirectRuns == {[w EXCEPT !.entry = "run"] : w \in WorkflowRuns}

Scenarios ==
    ConfigRuns \cup LoadRuns \cup DateRuns \cup ReportRuns \cup WorkflowRuns \cup DirectRuns

Init ==
    /\ \E s \in Scenarios :
          /\ entry = s.entry
          /\ argv = s.argv
          /\ project_config_file = s.project_config_file
          /\ fetch_env = s.fetch_env
          /\ fs = s.fs
          /\ module = s.module
          /\ args = s.args
    /\ project_config = EmptyDict
    /\ pc = "start"
    /\ codes = <<>>
    /\ data = EmptyDict
    /\ trade_date = NoneV
    /\ selector_cfgs = <<>>
    /\ etf_info_df = NoneV
    /\ results = EmptyDict
    /\ idx = 1
    /\ log = <<>>
    /\ attempted = <<>>
    /\ invoked = <<>>
    /\ outcome = ""
    /\ fatal = ""
    /\ should_fetch = FALSE
    /\ should_select = FALSE
    /\ self_etf_info_df = NoneV
    /\ self_etf_info_path = NoneV
    /\ trace = <<>>
    /\ run_ret = ""
    /\ exit_code = ""

Next ==
    \/ CliMain \/ RssDataDir \/ RssCodes \/ RssLoadData \/ RssTradeDate \/ RssLoadConfig
    \/ RssLoadEtf \/ LoopInactive \/ LoopSkip \/ LoopSelect \/ RssReturn \/ CliExit
    \/ MainStart \/ Run \/ RunFetch \/ SkipFetch \/ RunSelect \/ SkipSelect
    \/ RunSelectReturn \/ MainEnd \/ CallRun \/ RunReturn

Spec == Init /\ [][Next]_vars

\* ------------------------------------------------------------ properties
\* what the claims say of a spec, read off the spec itself
Cfg(i) == selector_cfgs[i]
SwitchedOff(i) == "activate" \in DOMAIN Cfg(i) /\ Cfg(i)["activate"] = FALSE
TypeOf(i) == IF "class" \in DOMAIN Cfg(i) THEN Cfg(i)["class"] ELSE ""
ParamsOf(i) == IF "params" \in DOMAIN Cfg(i) THEN Cfg(i)["params"] ELSE EmptyDict
AliasOf(i) == IF "alias" \in DOMAIN Cfg(i) THEN Cfg(i)["alias"] ELSE TypeOf(i)
\* the type is missing or unknown, or the constructor raises on the params
Unbuildable(i) ==
    \/ TypeOf(i) = ""
    \/ ~ClassKnown(module, TypeOf(i))
    \/ ~CtorAccepts(module, TypeOf(i), ParamsOf(i))
SelectRaises(i) == SelectOutcome(module, TypeOf(i)).raises
PicksOf(i) == SelectOutcome(module, TypeOf(i)).picks
Usable(i) == ~SwitchedOff(i) /\ ~Unbuildable(i)

Attempted(i) == \E k \in DOMAIN attempted : attempted[k] = i
Invoked(i) == \E k \in DOMAIN invoked : invoked[k].position = i
SkipLogged(i) ==
    \E k \in DOMAIN log : log[k].msg = "skip_config" /\ log[k].position = i

\* C1: a strategy whose select raises is caught and logged like a construction
\* failure: the exception never leaves run_select_stock, the spec adds no entry,
\* the loop goes on and the run returns the aggregate mapping.
C1_SelectFailureIsolated ==
    \A i \in DOMAIN selector_cfgs :
        (Invoked(i) /\ SelectRaises(i)) =>
            /\ outcome # "raise"
            /\ SkipLogged(i)
            /\ (pc = "rss_end" => outcome = "results")

FatalConditions ==
    {"no_data_dir", "empty_universe", "no_data", "invalid_date", "config_missing", "config_empty"}

\* C2: on every fatal condition run_select_stock returns None (it neither raises
\* nor ends the process), and StockTradeWorkflow.run_select then returns False.
C2_FatalReturnsSentinel ==
    fatal \in FatalConditions =>
        /\ outcome = "none"
        /\ (entry = "workflow" /\ pc \in {"main_end", "halt"} => run_ret = "False")

\* C3: a spec whose active field is false is never given to instantiate_selector,
\* its select is never called, it leaves no error record, and every entry of the
\* returned mapping comes from another spec, one that is active and constructed.
C3_InactiveNeverRuns ==
    \A i \in DOMAIN selector_cfgs :
        SwitchedOff(i) =>
            /\ ~Attempted(i)
            /\ ~Invoked(i)
            /\ ~SkipLogged(i)
            /\ (pc = "rss_end" /\ outcome = "results" =>
                   \A a \in DOMAIN results :
                       \E j \in DOMAIN selector_cfgs :
                           j # i /\ Usable(j) /\ AliasOf(j) = a /\ Invoked(j))

C3_Witness ==
    /\ pc = "rss_end"
    /\ outcome = "results"
    /\ \E i, j \in DOMAIN selector_cfgs :
          i < j /\ SwitchedOff(i) /\ ~Unbuildable(i) /\ Invoked(j) /\ AliasOf(j) \in DOMAIN results

\* C4: a spec whose type is missing or unknown, or whose constructor raises, is
\* skipped with an error record and no result entry; the active specs after it
\* are still constructed and executed and their results stored; when every spec
\* fails this way the run returns the empty mapping, not None.
C4_BadSpecSkipped ==
    /\ \A i \in DOMAIN selector_cfgs :
          (i < idx /\ ~SwitchedOff(i) /\ Unbuildable(i)) =>
              /\ SkipLogged(i)
              /\ ~Invoked(i)
              /\ \A j \in DOMAIN selector_cfgs :
                    (i < j /\ j < idx /\ ~SwitchedOff(j)) =>
                        /\ Attempted(j)
                        /\ (~Unbuildable(j) => Invoked(j) /\ AliasOf(j) \in DOMAIN results)
    /\ (pc = "rss_end" /\ selector_cfgs # <<>> /\ outcome # "results") =>
          \E i \in DOMAIN selector_cfgs : Usable(i) /\ SelectRaises(i)
    /\ (pc = "rss_end" /\ selector_cfgs # <<>>
        /\ \A i \in DOMAIN selector_cfgs : ~SwitchedOff(i) /\ Unbuildable(i)) =>
          outcome = "results" /\ results = EmptyDict

C4_Witness ==
    /\ pc = "rss_end"
    /\ outcome = "results"
    /\ \E i, j \in DOMAIN selector_cfgs :
          /\ i < j
          /\ ~SwitchedOff(i) /\ Unbuildable(i) /\ SkipLogged(i)
          /\ Usable(j) /\ Invoked(j) /\ AliasOf(j) \in DOMAIN results

LastUsable(a) ==
    CHOOSE i \in DOMAIN selector_cfgs :
        /\ Usable(i) /\ AliasOf(i) = a
        /\ \A j \in DOMAIN selector_cfgs : (Usable(j) /\ AliasOf(j) = a) => j <= i

\* C5: when run_select_stock returns its mapping, the keys are the aliases of the
\* active specs that were constructed (the type name without an alias), and each
\* value is the select result of the last such spec in configuration order.
C5_LastWriteWins ==
    (pc = "rss_end" /\ outcome = "results") =>
        /\ DOMAIN results = {AliasOf(i) : i \in {j \in DOMAIN selector_cfgs : Usable(j)}}
        /\ \A a \in DOMAIN results : results[a] = PicksOf(LastUsable(a))

C5_Witness ==
    /\ pc = "rss_end"
    /\ outcome = "results"
    /\ \E i, j \in DOMAIN selector_cfgs :
          /\ i < j /\ Usable(i) /\ Usable(j)
          /\ AliasOf(i) = AliasOf(j) /\ "alias" \notin DOMAIN Cfg(i)
          /\ PicksOf(i) # PicksOf(j)
          /\ results[AliasOf(j)] = PicksOf(j)

ConfigLoaded == pc \in {"rss_etf", "rss_loop"} \/ (pc = "rss_end" /\ outcome = "results")
ConfigRejected == pc = "rss_end" /\ outcome = "exit" /\ fatal = "config_empty"

\* the list a document stands for when an object is the wrapper only if
\* `selectors` is its one key, and a spec object otherwise
ShapeList(raw) ==
    IF raw.type = "list" THEN raw.val
    ELSE IF DOMAIN raw.val = {"selectors"} THEN raw.val["selectors"]
    ELSE <<raw.val>>

\* the list a document stands for when every object with a `selectors` key is
\* the wrapper
ShapeListByKey(raw) ==
    IF raw.type = "list" THEN raw.val
    ELSE IF "selectors" \in DOMAIN raw.val THEN raw.val["selectors"]
    ELSE <<raw.val>>

PastConfig == pc \in {"rss_etf", "rss_loop"} \/ (pc = "rss_end" /\ outcome \in {"results", "exit"})

\* C6 as claimed: the array S, the object {"selectors": S} and the single spec
\* object s (also one that carries a `selectors` key of its own) load as the same
\* list; the empty array and the empty selectors form are rejected as empty.
C6_AllShapesSameList ==
    (fs.config.tag = "json" /\ PastConfig) =>
        IF ShapeList(fs.config.json) = <<>>
        THEN ConfigRejected
        ELSE ConfigLoaded /\ selector_cfgs = ShapeList(fs.config.json)

\* C6 as amended: the same, except that an object with a `selectors` key is
\* always read as the wrapper: load_config returns the value of that key (and
\* rejects it when empty), whatever other keys the object has.
C6_ShapesSameListByKey ==
    (fs.config.tag = "json" /\ PastConfig) =>
        IF ShapeListByKey(fs.config.json) = <<>>
        THEN ConfigRejected
        ELSE ConfigLoaded /\ selector_cfgs = ShapeListByKey(fs.config.json)

C6_Witness ==
    /\ pc = "rss_etf"
    /\ fs.config.tag = "json"
    /\ fs.config.json.type = "dict"
    /\ {"class", "selectors"} \subseteq DOMAIN fs.config.json.val
    /\ Len(selector_cfgs) > 1
    /\ selector_cfgs = fs.config.json.val["selectors"]

Requested == {codes[i] : i \in DOMAIN codes}
OnDisk == DOMAIN fs.csv
WarnedFor(c) ==
    \E k \in DOMAIN log : log[k].level = "warning" /\ log[k].msg = "no_file" /\ log[k].what = c
PastLoad == pc \in {"rss_date", "rss_config", "rss_etf", "rss_loop"}

\* C7: load_data returns exactly the requested codes that have a history file,
\* each with its bars by date; every other requested code is warned about and
\* does not stop the loading; the run fails as data-unavailable exactly when no
\* requested code has a file.
C7_LoadsRequestedOnDisk ==
    /\ PastLoad =>
          /\ DOMAIN data = Requested \cap OnDisk
          /\ Requested \cap OnDisk # {}
          /\ \A c \in DOMAIN data :
                /\ Range(data[c]) = fs.csv[c]
                /\ \A i, j \in DOMAIN data[c] : i < j => data[c][i] < data[c][j]
          /\ \A c \in Requested \ OnDisk : WarnedFor(c)
          /\ outcome = ""
    /\ fatal \in {"empty_universe", "no_data"} =>
          /\ Requested \cap OnDisk = {}
          /\ outcome = "none"
          /\ \A c \in Requested : WarnedFor(c)

C7_Witness ==
    /\ pc = "rss_date"
    /\ Len(codes) >= 2
    /\ codes[1] \notin OnDisk
    /\ codes[Len(codes)] \in DOMAIN data
    /\ WarnedFor(codes[1])

AllBars == UNION {Range(data[c]) : c \in DOMAIN data}

\* C8: a run resolves one trade date and every select call receives it: the
\* explicit date when one is given, wherever it lies relative to the loaded
\* series, and otherwise the latest date of all loaded series.
C8_OneTradeDate ==
    /\ \A k \in DOMAIN invoked : trade_date # NoneV /\ invoked[k].trade_date = trade_date
    /\ trade_date # NoneV =>
          IF args.date # NoneV /\ args.date.kind # "empty"
          THEN args.date.kind = "iso" /\ trade_date = Timestamp(args.date.day)
          ELSE /\ trade_date.day \in AllBars
               /\ \A d \in AllBars : d <= trade_date.day

C8_Witness ==
    /\ invoked # <<>>
    /\ args.date = NoneV
    /\ \E c \in DOMAIN data : trade_date.day \notin Range(data[c])
    /\ \E c \in DOMAIN data : data[c][Len(data[c])] = trade_date.day /\ Len(data[c]) > 1

Returned(k) == ~SelectOutcome(module, invoked[k].cls).raises
PicksAt(k) == SelectOutcome(module, invoked[k].cls).picks
\* the select calls under alias a that returned a result holding the code c
Matches(a, c) ==
    {k \in DOMAIN invoked : invoked[k].alias = a /\ Returned(k) /\ c \in Range(PicksAt(k))}
EnrichedLines(a, c) ==
    {k \in DOMAIN log : log[k].msg = "enriched" /\ log[k].alias = a
                        /\ log[k].info_parts[1].code = c}
BareCodes(a, c) ==
    {k \in DOMAIN log : log[k].msg = "detail_missing" /\ log[k].alias = a
                        /\ c \in Range(log[k].codes)}
PlainLists(a, c) ==
    {k \in DOMAIN log : log[k].msg = "pick_list" /\ log[k].alias = a
                        /\ c \in Range(log[k].codes)}
HasRecord(c) ==
    /\ etf_info_df # NoneV
    /\ \E r \in DOMAIN etf_info_df.rows : etf_info_df.rows[r]["code"] = Str(c)
RecordOf(c) ==
    etf_info_df.rows[CHOOSE r \in DOMAIN etf_info_df.rows :
                        /\ etf_info_df.rows[r]["code"] = Str(c)
                        /\ \A q \in DOMAIN etf_info_df.rows :
                              etf_info_df.rows[q]["code"] = Str(c) => r <= q]
PartsNamed(parts, field) == {k \in DOMAIN parts : parts[k].part = field}
\* the field is in the record and is a number (positive when it must be)
Valid(row, field, positive) ==
    /\ field \in DOMAIN row
    /\ row[field] # NaN
    /\ (positive => row[field].num > 0)
\* the line shows the field exactly when it is present and valid, with its value
ShowsIfValid(parts, row, field, positive) ==
    IF Valid(row, field, positive)
    THEN \E k \in DOMAIN parts :
            PartsNamed(parts, field) = {k} /\ parts[k].value = row[field].num
    ELSE PartsNamed(parts, field) = {}
LastReturned(a) ==
    CHOOSE k \in DOMAIN invoked :
        /\ invoked[k].alias = a /\ Returned(k)
        /\ \A j \in DOMAIN invoked : (invoked[j].alias = a /\ Returned(j)) => j <= k

\* C9: each matched code of each alias is reported once: as an enriched line
\* (code, display name, and those of market cap, price and percent change that
\* are present and valid) when it has a reference record, as a bare code when
\* the reference table has no record of it, in the plain list when there is no
\* reference table; reporting leaves the returned mapping as select gave it.
C9_EachCodeReportedOnce ==
    /\ \A k \in DOMAIN invoked : \A c \in Codes :
          LET a == invoked[k].alias
              n == Cardinality(Matches(a, c))
          IN  /\ Cardinality(EnrichedLines(a, c)) = IF HasRecord(c) THEN n ELSE 0
              /\ Cardinality(BareCodes(a, c)) =
                    IF etf_info_df # NoneV /\ ~HasRecord(c) THEN n ELSE 0
              /\ Cardinality(PlainLists(a, c)) = IF etf_info_df = NoneV THEN n ELSE 0
    /\ \A k \in DOMAIN log :
          log[k].msg = "enriched" =>
              LET parts == log[k].info_parts
                  row == RecordOf(parts[1].code)
              IN  /\ ("name" \in DOMAIN row => parts[1].name = row["name"])
                  /\ ShowsIfValid(parts, row, "mktcap", TRUE)
                  /\ ShowsIfValid(parts, row, "price", TRUE)
                  /\ ShowsIfValid(parts, row, "change_pct", FALSE)
    /\ \A a \in DOMAIN results : results[a] = PicksAt(LastReturned(a))

Stage(event) == {k \in DOMAIN trace : trace[k] = event}
WorkflowSection == IF "workflow" \in DOMAIN project_config THEN project_config["workflow"]
                   ELSE EmptyDict
Setting(key) == IF key \in DOMAIN WorkflowSection THEN WorkflowSection[key] ELSE TRUE
FetchEnabled == argv.fetch_only \/ (~argv.select_only /\ Setting("auto_fetch"))
SelectEnabled == ~argv.fetch_only /\ (argv.select_only \/ Setting("auto_select"))

\* the part of the claim that does not depend on which flag wins: select starts
\* only after every enabled fetch stage has ended well (never after a failed
\* fetch), fetch_only runs no select, and run returns True exactly when every
\* enabled stage returned success
StagesInOrder ==
    /\ \A k \in Stage("select_start") :
          /\ SelectEnabled
          /\ Stage("fetch_failed") = {}
          /\ \A j \in Stage("fetch_start") : j < k
          /\ FetchEnabled => \E j \in Stage("fetch_ok") : j < k
    /\ Stage("fetch_start") # {} => FetchEnabled
    /\ argv.fetch_only => Stage("select_start") = {}
    /\ (entry \in {"workflow", "run"} /\ run_ret # "") =>
          (run_ret = "True" <=>
              /\ FetchEnabled => Stage("fetch_ok") # {}
              /\ SelectEnabled => Stage("select_ok") # {})

BothFlags == argv.fetch_only /\ argv.select_only

\* C10 as stated: in StockTradeWorkflow.run, for every combination of
\* fetch_only and select_only, the stages run in order as above, fetch_only
\* runs no select and select_only runs no fetch.  Fails for run(True, True):
\* fetch_only is tested first and the fetch stage runs.
C10_FetchBeforeSelect ==
    /\ StagesInOrder
    /\ argv.select_only => Stage("fetch_start") = {}

\* C10 amended: the stages run in order as above; select_only runs no fetch
\* when fetch_only is not set; with both set fetch_only takes precedence in
\* run (the fetch stage runs and select does not), and main() rejects the pair
\* with exit code 1 before any stage runs.
C10_FetchOnlyWins ==
    /\ StagesInOrder
    /\ (argv.select_only /\ ~argv.fetch_only) => Stage("fetch_start") = {}
    /\ (BothFlags /\ entry = "run" /\ run_ret \in {"True", "False"}) =>
          /\ Stage("fetch_start") # {}
          /\ Stage("select_start") = {}
    /\ (BothFlags /\ entry = "workflow") =>
          /\ trace = <<>>
          /\ pc = "halt" => exit_code = "1"

\* run(True, True) has run the fetch stage alone and returned True
C10_Witness ==
    /\ entry = "run"
    /\ BothFlags
    /\ trace = <<"fetch_start", "fetch_ok">>
    /\ run_ret = "True"
    /\ pc = "halt"

====
